---- MODULE Spec2Model ----
(***************************************************************************)
(* Model of prefect/utilities/processutils.py: open_process, run_process,  *)
(* consume_process_output, stream_text and kill_on_interrupt.              *)
(*                                                                         *)
(* One run_process call is one task.  Its position is pc; every await of   *)
(* the source is a step at which a requested cancellation is delivered     *)
(* (anyio cancel scopes are level-triggered), except the step run under    *)
(* CancelScope(shield=True).  The child process, the two pipes and the     *)
(* two stream_text tasks of the task group interleave freely with it.      *)
(***************************************************************************)
EXTENDS Integers, Sequences, FiniteSets, TLC

\* ---------------------------------------------------------------- bounds
MaxChunks == 2          \* chunks the child writes per channel
MaxInterrupts == 3      \* SIGINT deliveries per behaviour
MaxInstalls == 2        \* kill_on_interrupt calls per behaviour

Channels == {"out", "err"}
\* pid the OS gives the child of run_process
Pids == {1}
Other(c) == IF c = "out" THEN "err" ELSE "out"

\* what the caller may pass as command; only "list" is a Python list
CommandKinds == {"list", "str", "tuple", "none"}
\* the command values that are ordered token sequences
TokenSequences == {"list", "tuple"}
\* what the caller may bind to one channel; an anyio.AsyncFile passed as is
\* takes the branch a wrapped text file takes, "Other" is any other object
SinkKinds == {"TextSendStream", "TextIOBase", "None", "Other"}

VARIABLES
    platform,            \* sys.platform: "linux" or "win32"
    command,             \* kind of the command argument
    stream_output,       \* [tag, out, err]: False, True or a pair of sinks
    task_status,         \* TRUE iff a task status object was passed
    task_status_handler, \* TRUE iff a custom handler was passed
    pc,                  \* position of the run_process task
    exc,                 \* exception in flight, "none" if none
    cancelled,           \* cancellation of the owning task requested
    pid,                 \* process.pid, 0 before the spawn
    child,               \* "none", "running", "exited"
    result,              \* pid of the handle run_process returned, 0 if none
    spawns,              \* number of child processes created
    termAttempts,        \* calls of process.terminate()
    termSignals,         \* termination signals that reached a running child
    termRaised,          \* what the last process.terminate() raised, or "none"
    closeFails,          \* process.aclose() may raise in this environment
    aexitClosed,         \* process.aclose() of "async with process" completed
    acloseDone,          \* the shielded process.aclose() completed
    cancelInScope,       \* owner was cancelled while the child was running
    exitKind,            \* how the body of the scope was left
    ctrlHandlers,        \* win32 console control handlers registered (pids)
    handler,             \* value bound to "handler" in open_process
    reported,            \* values passed to task_status.started
    emitted,             \* per channel, the chunks the child wrote
    pipe,                \* per channel, chunks written and not yet read
    chanOpen,            \* per channel, write end still open
    relay,               \* per channel, state of its stream_text task
    relayExc,            \* per channel, exception its stream_text raised
    item,                \* per channel, the chunk stream_text holds
    delivered,           \* per sink (stdout_sink, stderr_sink), chunks received
    sigint,              \* SIGINT disposition: [kind, pid, name, inst]
    installs,            \* number of kill_on_interrupt calls so far
    interrupts,          \* number of SIGINT deliveries so far
    killLog,             \* sequence of <<pid, signal>> sent by the handlers
    printLog,            \* sequence of messages given to print_fn
    gone,                \* pids for which os.kill raises ProcessLookupError
    installLog,          \* sequence of <<pid, name>> kill_on_interrupt got
    stopped,             \* installations whose stop_process sent its signal
    runEnded             \* the process the disposition was installed for ended

procVars == <<platform, command, stream_output, task_status,
              task_status_handler, closeFails, pc, exc, cancelled, pid, child,
              result, spawns, termAttempts, termSignals, termRaised, aexitClosed,
              acloseDone, cancelInScope, exitKind, ctrlHandlers, handler,
              reported, emitted, pipe, chanOpen, relay, relayExc, item,
              delivered>>
sigVars == <<sigint, installs, interrupts, killLog, printLog, gone,
             installLog, stopped, runEnded>>
vars == <<procVars, sigVars>>

\* ------------------------------------------------------- pure helpers
\* mutant: the guard of lines 44-48 lets every command through
IsList_Unchecked(cmd) == TRUE

\* isinstance(command, list)
IsList(cmd) == cmd = "list"

\* truth value of stream_output: False is falsy, a tuple of two sinks is not
Truthy(so) == so.tag # "False"

\* "if stream_output is True: stream_output = (sys.stdout, sys.stderr)"
Normalise(so) ==
    IF so.tag = "True"
    THEN [tag |-> "pair", out |-> "TextIOBase", err |-> "TextIOBase"]
    ELSE so

\* mutant: both channels are piped whatever stream_output is
Piped_Always(so) == TRUE

\* stdout=/stderr= argument: subprocess.PIPE if stream_output else DEVNULL
Piped(so) == Truthy(so)

\* stdout_sink=stream_output[0], stderr_sink=stream_output[1]
SinkOf(so, c) == IF c = "out" THEN so.out ELSE so.err

\* mutant: consume_process_output hands each stream the other channel's sink
SinkFor_Crossed(c) == Other(c)

\* consume_process_output pairs process.stdout with stdout_sink and
\* process.stderr with stderr_sink; sinks are named after their parameter
SinkFor(c) == c

\* a blocking text file is wrapped into an anyio.AsyncFile
WrapFile(k) == IF k = "TextIOBase" THEN "AsyncFile" ELSE k

\* mutant: an unrecognised sink is treated like the discard sink
Dispatch_Lenient(k) ==
    CASE k = "TextSendStream" -> "send"
      [] k = "AsyncFile"      -> "write"
      [] OTHER                -> "drop"

\* the isinstance chain stream_text runs on every item
Dispatch(k) ==
    CASE k = "TextSendStream" -> "send"
      [] k = "AsyncFile"      -> "write"
      [] k = "None"           -> "drop"
      [] OTHER                -> "raise"

\* the default task_status_handler: lambda process: process.pid
DefaultHandler(p) == p
\* a handler supplied by the caller returns a value of its own
CustomHandler(p) == 0 - p

\* value passed to task_status.started
StatusValue(custom, p) ==
    IF custom THEN CustomHandler(p) ELSE DefaultHandler(p)

\* win32api.SetConsoleCtrlHandler(h, False): None unregisters nothing
RemoveHandler(reg, h) == IF h = "None" THEN reg ELSE reg \ {h}

\* the k-th chunk the child writes on channel c
Chunk(c, k) == <<c, k>>

IsPrefix(s, t) == Len(s) <= Len(t) /\ SubSeq(t, 1, Len(s)) = s

Terminal(r) == r \in {"done", "failed", "cancelled"}
\* the task group's scope is cancelled once a child task has failed
GroupCancelled == \E c \in Channels : relay[c] = "failed"

InScope == pc \in {"report", "stream", "fanout", "wait", "aexit",
                   "terminate", "aclose"}
ScopeLeft == pc \in {"returned", "raised"} /\ spawns > 0

StreamOutputs ==
    [tag : {"False", "True"}, out : {"None"}, err : {"None"}]
    \cup [tag : {"pair"}, out : SinkKinds, err : SinkKinds]

EmptyChannels == [c \in Channels |-> <<>>]

\* --------------------------------------------------------------- Init
SigIdle ==
    /\ sigint = [kind |-> "default", pid |-> 0, name |-> "", inst |-> 0]
    /\ installs = 0
    /\ interrupts = 0
    /\ killLog = <<>>
    /\ printLog = <<>>
    /\ gone = {}
    /\ installLog = <<>>
    /\ stopped = {}
    /\ runEnded = FALSE

ProcIdle ==
    /\ pc = "start"
    /\ exc = "none"
    /\ cancelled = FALSE
    /\ pid = 0
    /\ child = "none"
    /\ result = 0
    /\ spawns = 0
    /\ termAttempts = 0
    /\ termSignals = 0
    /\ termRaised = "none"
    /\ aexitClosed = FALSE
    /\ acloseDone = FALSE
    /\ cancelInScope = FALSE
    /\ exitKind = "none"
    /\ ctrlHandlers = {}
    /\ handler = "unbound"
    /\ reported = <<>>
    /\ emitted = EmptyChannels
    /\ pipe = EmptyChannels
    /\ chanOpen = [c \in Channels |-> FALSE]
    /\ relay = [c \in Channels |-> "idle"]
    /\ relayExc = [c \in Channels |-> "none"]
    /\ item = [c \in Channels |-> <<>>]
    /\ delivered = EmptyChannels

Init ==
    /\ platform \in {"linux", "win32"}
    /\ command \in CommandKinds
    /\ stream_output \in StreamOutputs
    /\ task_status \in BOOLEAN
    /\ task_status_handler \in (IF task_status THEN BOOLEAN ELSE {FALSE})
    /\ closeFails = FALSE
    /\ ProcIdle
    /\ SigIdle

inputs == <<platform, command, task_status, task_status_handler, closeFails>>
history == <<spawns, termAttempts, termSignals, termRaised, aexitClosed, acloseDone,
             cancelInScope, exitKind, result>>
streams == <<emitted, pipe, chanOpen, relay, relayExc, item, delivered>>

\* ------------------------------------------------ run_process, open_process
\* run_process lines 122-130 and open_process lines 44-48: normalise
\* stream_output, enter the scope, validate the command
Begin ==
    /\ pc = "start"
    /\ stream_output' = Normalise(stream_output)
    /\ IF IsList(command)
       THEN pc' = "spawn" /\ exc' = exc
       ELSE pc' = "raised" /\ exc' = "TypeError"
    /\ UNCHANGED <<inputs, history, streams, cancelled, pid, child,
                   ctrlHandlers, handler, reported, sigVars>>

\* open_process lines 53-81: await anyio.open_process, and on win32 register
\* the console control handler and bind what the registration returns
Spawn ==
    /\ pc = "spawn"
    /\ \/ /\ cancelled
          /\ pc' = "raised" /\ exc' = "Cancelled"
          /\ UNCHANGED <<pid, child, spawns, chanOpen, ctrlHandlers, handler>>
       \/ /\ ~cancelled
          /\ pc' = "raised" /\ exc' = "OSError"
          /\ UNCHANGED <<pid, child, spawns, chanOpen, ctrlHandlers, handler>>
       \/ /\ ~cancelled
          /\ \E p \in Pids :
                /\ pid' = p
                /\ IF platform = "win32"
                   THEN ctrlHandlers' = ctrlHandlers \cup {p}
                        /\ handler' = "None"
                   ELSE UNCHANGED <<ctrlHandlers, handler>>
          /\ child' = "running"
          /\ spawns' = spawns + 1
          /\ chanOpen' = [c \in Channels |-> TRUE]
          /\ pc' = "report" /\ exc' = exc
    /\ UNCHANGED <<inputs, stream_output, cancelled, result, termAttempts,
                   termSignals, termRaised, aexitClosed, acloseDone, cancelInScope,
                   exitKind, reported, emitted, pipe, relay, relayExc, item,
                   delivered, sigVars>>

\* mutant: the body never calls task_status.started
Report_Skipped ==
    /\ pc = "report"
    /\ pc' = "stream"
    /\ UNCHANGED <<inputs, stream_output, history, streams, exc, cancelled,
                   pid, child, ctrlHandlers, handler, reported, sigVars>>

\* run_process lines 132-136: task_status.started(task_status_handler(process))
Report ==
    /\ pc = "report"
    /\ reported' = IF task_status
                   THEN Append(reported, StatusValue(task_status_handler, pid))
                   ELSE reported
    /\ pc' = "stream"
    /\ UNCHANGED <<inputs, stream_output, history, streams, exc, cancelled,
                   pid, child, ctrlHandlers, handler, sigVars>>

\* run_process line 138 and consume_process_output lines 153-163: start one
\* stream_text task per channel, or go straight to the wait
Stream ==
    /\ pc = "stream"
    /\ IF Truthy(stream_output)
       THEN pc' = "fanout" /\ relay' = [c \in Channels |-> "recv"]
       ELSE pc' = "wait" /\ relay' = relay
    /\ UNCHANGED <<inputs, stream_output, history, exc, cancelled, pid, child,
                   ctrlHandlers, handler, reported, emitted, pipe, chanOpen,
                   relayExc, item, delivered, sigVars>>

\* ------------------------------------------------------------ stream_text
\* a stream_text task is interrupted at an await once the owning task or the
\* task group's scope is cancelled
Interrupted == cancelled \/ GroupCancelled

\* stream_text lines 167-180, one turn of "async for item in source" up to
\* the await on the sink: receive the next chunk (or the end of the stream)
\* and run the isinstance chain on it
RelayRecv(c) ==
    /\ relay[c] = "recv"
    /\ \/ /\ Interrupted
          /\ relay' = [relay EXCEPT ![c] = "cancelled"]
          /\ UNCHANGED <<pipe, item, relayExc>>
       \/ /\ pipe[c] = <<>> /\ ~chanOpen[c]
          /\ relay' = [relay EXCEPT ![c] = "done"]
          /\ UNCHANGED <<pipe, item, relayExc>>
       \/ /\ pipe[c] # <<>>
          /\ pipe' = [pipe EXCEPT ![c] = Tail(pipe[c])]
          /\ LET act == Dispatch(WrapFile(SinkOf(stream_output, SinkFor(c)))) IN
             CASE act \in {"send", "write"} ->
                     /\ relay' = [relay EXCEPT ![c] = "send"]
                     /\ item' = [item EXCEPT ![c] = <<Head(pipe[c])>>]
                     /\ UNCHANGED relayExc
               [] act = "drop" ->
                     UNCHANGED <<relay, item, relayExc>>
               [] OTHER ->
                     /\ relay' = [relay EXCEPT ![c] = "failed"]
                     /\ relayExc' = [relayExc EXCEPT ![c] = "TypeError"]
                     /\ UNCHANGED item
    /\ UNCHANGED <<inputs, stream_output, history, pc, exc, cancelled, pid,
                   child, ctrlHandlers, handler, reported, emitted, chanOpen,
                   delivered, sigVars>>

\* stream_text lines 173 and 175-176: await sink.send(item), or
\* await sink.write(item) and flush; the sink may raise
RelaySend(c) ==
    /\ relay[c] = "send"
    /\ \/ /\ Interrupted
          /\ relay' = [relay EXCEPT ![c] = "cancelled"]
          /\ UNCHANGED <<delivered, relayExc>>
       \/ /\ delivered' = [delivered EXCEPT ![SinkFor(c)] = Append(@, item[c][1])]
          /\ relay' = [relay EXCEPT ![c] = "recv"]
          /\ UNCHANGED relayExc
       \/ /\ relay' = [relay EXCEPT ![c] = "failed"]
          /\ relayExc' = [relayExc EXCEPT ![c] = "SinkError"]
          /\ UNCHANGED delivered
    /\ item' = [item EXCEPT ![c] = <<>>]
    /\ UNCHANGED <<inputs, stream_output, history, pc, exc, cancelled, pid,
                   child, ctrlHandlers, handler, reported, emitted, pipe,
                   chanOpen, sigVars>>

\* what the task group raises when child tasks failed
GroupFailure ==
    IF \A c \in Channels : relay[c] = "failed"
    THEN "ExceptionGroup"
    ELSE relayExc[CHOOSE c \in Channels : relay[c] = "failed"]

\* mutant: the group is left as soon as one stream_text task has ended
FanoutExit_FirstDone ==
    /\ pc = "fanout"
    /\ \E c \in Channels : Terminal(relay[c])
    /\ IF GroupCancelled
       THEN pc' = "aexit" /\ exc' = GroupFailure /\ exitKind' = "exception"
       ELSE IF \E c \in Channels : relay[c] = "cancelled"
       THEN pc' = "aexit" /\ exc' = "Cancelled" /\ exitKind' = "cancelled"
       ELSE pc' = "wait" /\ exc' = exc /\ exitKind' = exitKind
    /\ UNCHANGED <<inputs, stream_output, streams, cancelled, pid, child,
                   result, spawns, termAttempts, termSignals, termRaised, aexitClosed,
                   acloseDone, cancelInScope, ctrlHandlers, handler, reported,
                   sigVars>>

\* mutant: a failure leaves the group at once, the sibling task keeps running
FanoutExit_FailFast ==
    /\ pc = "fanout"
    /\ \/ GroupCancelled
       \/ \A c \in Channels : Terminal(relay[c])
    /\ IF GroupCancelled
       THEN pc' = "aexit" /\ exc' = GroupFailure /\ exitKind' = "exception"
       ELSE IF \E c \in Channels : relay[c] = "cancelled"
       THEN pc' = "aexit" /\ exc' = "Cancelled" /\ exitKind' = "cancelled"
       ELSE pc' = "wait" /\ exc' = exc /\ exitKind' = exitKind
    /\ UNCHANGED <<inputs, stream_output, streams, cancelled, pid, child,
                   result, spawns, termAttempts, termSignals, termRaised, aexitClosed,
                   acloseDone, cancelInScope, ctrlHandlers, handler, reported,
                   sigVars>>

\* consume_process_output line 153, leaving "async with create_task_group()":
\* the group is left once both stream_text tasks have ended
FanoutExit ==
    /\ pc = "fanout"
    /\ \A c \in Channels : Terminal(relay[c])
    /\ IF GroupCancelled
       THEN pc' = "aexit" /\ exc' = GroupFailure /\ exitKind' = "exception"
       ELSE IF \E c \in Channels : relay[c] = "cancelled"
       THEN pc' = "aexit" /\ exc' = "Cancelled" /\ exitKind' = "cancelled"
       ELSE pc' = "wait" /\ exc' = exc /\ exitKind' = exitKind
    /\ UNCHANGED <<inputs, stream_output, streams, cancelled, pid, child,
                   result, spawns, termAttempts, termSignals, termRaised, aexitClosed,
                   acloseDone, cancelInScope, ctrlHandlers, handler, reported,
                   sigVars>>

\* mutant: the body leaves the scope without awaiting process.wait()
Wait_Skipped ==
    /\ pc = "wait"
    /\ pc' = "aexit"
    /\ UNCHANGED <<inputs, stream_output, history, streams, exc, cancelled,
                   pid, child, ctrlHandlers, handler, reported, sigVars>>

\* run_process line 143: await process.wait()
Wait ==
    /\ pc = "wait"
    /\ \/ /\ cancelled
          /\ exc' = "Cancelled" /\ exitKind' = "cancelled"
       \/ /\ child = "exited"
          /\ exc' = exc /\ exitKind' = "normal"
    /\ pc' = "aexit"
    /\ UNCHANGED <<inputs, stream_output, streams, cancelled, pid, child,
                   result, spawns, termAttempts, termSignals, termRaised, aexitClosed,
                   acloseDone, cancelInScope, ctrlHandlers, handler, reported,
                   sigVars>>

\* open_process line 84, leaving "async with process": process.aclose()
\* without a shield; it closes the streams and waits for the child, and a
\* cancellation delivered there replaces the exception in flight
Aexit ==
    /\ pc = "aexit"
    /\ \/ /\ cancelled
          /\ exc' = "Cancelled" /\ aexitClosed' = aexitClosed
       \/ /\ child = "exited"
          /\ exc' = exc /\ aexitClosed' = TRUE
       \/ /\ closeFails                  \* closing a stream raised
          /\ exc' = "OSError" /\ aexitClosed' = aexitClosed
    /\ pc' = "terminate"
    /\ UNCHANGED <<inputs, stream_output, streams, cancelled, pid, child,
                   result, spawns, termAttempts, termSignals, termRaised, acloseDone,
                   cancelInScope, exitKind, ctrlHandlers, handler, reported,
                   sigVars>>

\* mutant: the finally block has no "except ProcessLookupError"
Terminate_NoExcept ==
    /\ pc = "terminate"
    /\ termAttempts' = termAttempts + 1
    /\ \/ /\ child = "running"
          /\ pc' = "raised" /\ exc' = "PermissionError"
          /\ termRaised' = "PermissionError"
          /\ UNCHANGED <<termSignals, ctrlHandlers>>
       \/ /\ child = "running"
          /\ termSignals' = termSignals + 1
          /\ termRaised' = "none"
          /\ ctrlHandlers' = IF platform = "win32"
                             THEN RemoveHandler(ctrlHandlers, handler)
                             ELSE ctrlHandlers
          /\ pc' = "aclose" /\ exc' = exc
       \/ /\ child = "exited"
          /\ \/ /\ termRaised' = "ProcessLookupError"
                /\ ctrlHandlers' = ctrlHandlers
                /\ pc' = "raised" /\ exc' = "ProcessLookupError"
             \/ /\ termRaised' = "none"
                /\ ctrlHandlers' = IF platform = "win32"
                                   THEN RemoveHandler(ctrlHandlers, handler)
                                   ELSE ctrlHandlers
                /\ pc' = "aclose" /\ exc' = exc
          /\ UNCHANGED termSignals
    /\ UNCHANGED <<inputs, stream_output, streams, cancelled, pid, child,
                   result, spawns, aexitClosed, acloseDone, cancelInScope,
                   exitKind, handler, reported, sigVars>>

\* open_process lines 87-97: process.terminate(), on win32 followed by the
\* removal of the console control handler; only ProcessLookupError is caught.
\* terminate() signals a running child through os.kill, which the OS may
\* refuse (PermissionError, a child running under another uid); on a child
\* that has exited it raises ProcessLookupError or does nothing.
Terminate ==
    /\ pc = "terminate"
    /\ termAttempts' = termAttempts + 1
    /\ \/ /\ child = "running"        \* the OS refuses the signal (EPERM)
          /\ pc' = "raised" /\ exc' = "PermissionError"
          /\ termRaised' = "PermissionError"
          /\ UNCHANGED <<termSignals, ctrlHandlers>>
       \/ /\ child = "running"
          /\ termSignals' = termSignals + 1
          /\ termRaised' = "none"
          /\ ctrlHandlers' = IF platform = "win32"
                             THEN RemoveHandler(ctrlHandlers, handler)
                             ELSE ctrlHandlers
          /\ pc' = "aclose" /\ exc' = exc
       \/ /\ child = "exited"
          /\ \/ /\ termRaised' = "ProcessLookupError"   \* caught, passed
                /\ ctrlHandlers' = ctrlHandlers
             \/ /\ termRaised' = "none"
                /\ ctrlHandlers' = IF platform = "win32"
                                   THEN RemoveHandler(ctrlHandlers, handler)
                                   ELSE ctrlHandlers
          /\ pc' = "aclose" /\ exc' = exc
          /\ UNCHANGED termSignals
    /\ UNCHANGED <<inputs, stream_output, streams, cancelled, pid, child,
                   result, spawns, aexitClosed, acloseDone, cancelInScope,
                   exitKind, handler, reported, sigVars>>

\* mutant: process.aclose() is called without being awaited
Aclose_NotAwaited ==
    /\ pc = "aclose"
    /\ acloseDone' = acloseDone
    /\ IF exc = "none"
       THEN pc' = "returned" /\ result' = pid
       ELSE pc' = "raised" /\ result' = result
    /\ UNCHANGED <<inputs, stream_output, streams, exc, cancelled, pid, child,
                   spawns, termAttempts, termSignals, termRaised, aexitClosed,
                   cancelInScope, exitKind, ctrlHandlers, handler, reported,
                   sigVars>>

\* open_process lines 102-103 and run_process line 145: process.aclose()
\* under CancelScope(shield=True), then the scope is left
Aclose ==
    /\ pc = "aclose"
    /\ \/ /\ child = "exited"
          /\ acloseDone' = TRUE
          /\ exc' = exc
          /\ IF exc = "none"
             THEN pc' = "returned" /\ result' = pid
             ELSE pc' = "raised" /\ result' = result
       \/ /\ closeFails                  \* closing a stream raised
          /\ acloseDone' = acloseDone
          /\ exc' = "OSError"
          /\ pc' = "raised" /\ result' = result
    /\ UNCHANGED <<inputs, stream_output, streams, cancelled, pid, child,
                   spawns, termAttempts, termSignals, termRaised, aexitClosed,
                   cancelInScope, exitKind, ctrlHandlers, handler, reported,
                   sigVars>>

\* ------------------------------------------------------------ environment
\* the child writes its next chunk on channel c
ChildEmit(c) ==
    /\ child = "running" /\ chanOpen[c]
    /\ Len(emitted[c]) < MaxChunks
    /\ LET ch == Chunk(c, Len(emitted[c]) + 1) IN
       /\ emitted' = [emitted EXCEPT ![c] = Append(@, ch)]
       /\ pipe' = IF Piped(stream_output)
                  THEN [pipe EXCEPT ![c] = Append(@, ch)]
                  ELSE pipe
    /\ UNCHANGED <<inputs, stream_output, history, pc, exc, cancelled, pid,
                   child, ctrlHandlers, handler, reported, chanOpen, relay,
                   relayExc, item, delivered, sigVars>>

\* the child closes channel c
ChildClose(c) ==
    /\ child = "running" /\ chanOpen[c]
    /\ chanOpen' = [chanOpen EXCEPT ![c] = FALSE]
    /\ UNCHANGED <<inputs, stream_output, history, pc, exc, cancelled, pid,
                   child, ctrlHandlers, handler, reported, emitted, pipe,
                   relay, relayExc, item, delivered, sigVars>>

\* the child exits, of its own accord or on a signal
ChildExit ==
    /\ child = "running"
    /\ child' = "exited"
    /\ chanOpen' = [c \in Channels |-> FALSE]
    /\ UNCHANGED <<inputs, stream_output, history, pc, exc, cancelled, pid,
                   ctrlHandlers, handler, reported, emitted, pipe, relay,
                   relayExc, item, delivered, sigVars>>

\* the task that owns the scope is cancelled
Cancel ==
    /\ pc \notin {"start", "returned", "raised"}
    /\ ~cancelled
    /\ cancelled' = TRUE
    /\ cancelInScope' = (InScope /\ child = "running")
    /\ UNCHANGED <<inputs, stream_output, streams, pc, exc, pid, child,
                   result, spawns, termAttempts, termSignals, termRaised, aexitClosed,
                   acloseDone, exitKind, ctrlHandlers, handler, reported,
                   sigVars>>

Next ==
    \/ Begin
    \/ Spawn
    \/ Report
    \/ Stream
    \/ \E c \in Channels : RelayRecv(c)
    \/ \E c \in Channels : RelaySend(c)
    \/ FanoutExit
    \/ Wait
    \/ Aexit
    \/ Terminate
    \/ Aclose
    \/ \E c \in Channels : ChildEmit(c)
    \/ \E c \in Channels : ChildClose(c)
    \/ ChildExit
    \/ Cancel

Spec == Init /\ [][Next]_vars

\* the same calls in an environment where closing the process resources
\* (a pipe, a wait handle) can fail
InitFault ==
    /\ platform \in {"linux", "win32"}
    /\ command \in CommandKinds
    /\ stream_output \in StreamOutputs
    /\ task_status \in BOOLEAN
    /\ task_status_handler \in (IF task_status THEN BOOLEAN ELSE {FALSE})
    /\ closeFails = TRUE
    /\ ProcIdle
    /\ SigIdle

SpecFault == InitFault /\ [][Next]_vars

TypeOK ==
    /\ pc \in {"start", "spawn", "report", "stream", "fanout", "wait",
               "aexit", "terminate", "aclose", "returned", "raised"}
    /\ child \in {"none", "running", "exited"}
    /\ \A c \in Channels : Len(delivered[c]) <= MaxChunks

\* ------------------------------------------------------ kill_on_interrupt
\* pids and process names kill_on_interrupt is called with
SigPids == {1, 2}
Names == {"agent", "orion"}

\* mutant: stop_process leaves the disposition as it found it
AfterStop_NoEscalation(plat, h) == h

\* signal stop_process sends: CTRL_BREAK_EVENT on win32, SIGTERM elsewhere
StopSignal(plat) == IF plat = "win32" THEN "CTRL_BREAK_EVENT" ELSE "SIGTERM"

\* disposition after stop_process ran to its end: off win32 it ends with
\* signal.signal(signal.SIGINT, kill_process)
AfterStop(plat, h) ==
    IF plat = "win32" THEN h ELSE [h EXCEPT !.kind = "kill"]

\* mutant: a disposition already installed is kept, the new call is ignored
KillOnInterrupt_KeepFirst(p, n) ==
    /\ installs < MaxInstalls
    /\ installs' = installs + 1
    /\ installLog' = Append(installLog, <<p, n>>)
    /\ IF sigint.kind = "default"
       THEN /\ sigint' = [kind |-> "stop", pid |-> p, name |-> n,
                          inst |-> installs + 1]
            /\ runEnded' = (p \in gone)
       ELSE UNCHANGED <<sigint, runEnded>>
    /\ UNCHANGED <<procVars, interrupts, killLog, printLog, gone, stopped>>

\* kill_on_interrupt lines 183-207: signal.signal(signal.SIGINT, stop_process)
KillOnInterrupt(p, n) ==
    /\ installs < MaxInstalls
    /\ installs' = installs + 1
    /\ installLog' = Append(installLog, <<p, n>>)
    /\ sigint' = [kind |-> "stop", pid |-> p, name |-> n,
                  inst |-> installs + 1]
    /\ runEnded' = (p \in gone)
    /\ UNCHANGED <<procVars, interrupts, killLog, printLog, gone, stopped>>

\* mutant: stop_process installs kill_process before it calls os.kill
StopProcess_EscalateFirst ==
    /\ sigint.kind = "stop"
    /\ \/ UNCHANGED <<printLog, killLog, sigint, stopped>>
       \/ /\ printLog' = Append(printLog, <<"Stopping", sigint.name>>)
          /\ sigint' = AfterStop(platform, sigint)
          /\ IF sigint.pid \in gone
             THEN UNCHANGED <<killLog, stopped>>
             ELSE /\ killLog' = Append(killLog,
                                       <<sigint.pid, StopSignal(platform)>>)
                  /\ stopped' = stopped \cup {sigint.inst}

\* stop_process, lines 192-194 and 198-201, run on a SIGINT
StopProcess ==
    /\ sigint.kind = "stop"
    /\ \/ UNCHANGED <<printLog, killLog, sigint, stopped>> \* print_fn raised
       \/ /\ printLog' = Append(printLog, <<"Stopping", sigint.name>>)
          /\ IF sigint.pid \in gone
             THEN UNCHANGED <<killLog, sigint, stopped>>  \* os.kill raised
             ELSE /\ killLog' = Append(killLog,
                                       <<sigint.pid, StopSignal(platform)>>)
                  /\ stopped' = stopped \cup {sigint.inst}
                  /\ sigint' = AfterStop(platform, sigint)

\* mutant: kill_process puts stop_process back after its signal
KillProcess_Reset ==
    /\ sigint.kind = "kill"
    /\ \/ UNCHANGED <<printLog, killLog, sigint, stopped>>
       \/ /\ printLog' = Append(printLog, <<"Killing", sigint.name>>)
          /\ killLog' = IF sigint.pid \in gone
                        THEN killLog
                        ELSE Append(killLog, <<sigint.pid, "SIGKILL">>)
          /\ sigint' = [sigint EXCEPT !.kind = "stop"]
          /\ UNCHANGED stopped

\* kill_process, lines 203-205, run on a SIGINT
KillProcess ==
    /\ sigint.kind = "kill"
    /\ \/ UNCHANGED <<printLog, killLog, sigint, stopped>> \* print_fn raised
       \/ /\ printLog' = Append(printLog, <<"Killing", sigint.name>>)
          /\ killLog' = IF sigint.pid \in gone
                        THEN killLog             \* os.kill raised
                        ELSE Append(killLog, <<sigint.pid, "SIGKILL">>)
          /\ UNCHANGED <<sigint, stopped>>

\* a SIGINT is delivered to the interpreter: the installed disposition runs
Interrupt ==
    /\ interrupts < MaxInterrupts
    /\ interrupts' = interrupts + 1
    /\ \/ /\ sigint.kind = "default"
          /\ UNCHANGED <<printLog, killLog, sigint, stopped>>
       \/ StopProcess
       \/ KillProcess
    /\ UNCHANGED <<procVars, installs, gone, installLog, runEnded>>

\* the process with pid p is gone: os.kill(p, ...) raises ProcessLookupError;
\* if the disposition was installed for it, the supervised run has ended
ProcessGone(p) ==
    /\ p \notin gone
    /\ gone' = gone \cup {p}
    /\ runEnded' = (runEnded \/ (sigint.kind # "default" /\ sigint.pid = p))
    /\ UNCHANGED <<procVars, sigint, installs, interrupts, killLog, printLog,
                   installLog, stopped>>

\* the OS gives the pid of a process that is gone to a new process
PidReused(p) ==
    /\ p \in gone
    /\ gone' = gone \ {p}
    /\ UNCHANGED <<procVars, sigint, installs, interrupts, killLog, printLog,
                   installLog, stopped, runEnded>>

InitSig ==
    /\ platform \in {"linux", "win32"}
    /\ command = "list"
    /\ stream_output = [tag |-> "False", out |-> "None", err |-> "None"]
    /\ task_status = FALSE
    /\ task_status_handler = FALSE
    /\ closeFails = FALSE
    /\ ProcIdle
    /\ SigIdle

NextSig ==
    \/ \E p \in SigPids, n \in Names : KillOnInterrupt(p, n)
    \/ Interrupt
    \/ \E p \in SigPids : ProcessGone(p)
    \/ \E p \in SigPids : PidReused(p)

SpecSig == InitSig /\ [][NextSig]_vars

\* ================================================================ claims

\* C1: if the owning task is cancelled while the child is still running, the
\* scope is left only after a termination request was made and the shielded
\* process.aclose() ran to completion; no cancellation abandons the closing.
C1_CancelStillReleases ==
    (ScopeLeft /\ cancelInScope) => (termAttempts >= 1 /\ acloseDone)

\* C2: every way of leaving the scope of a spawned child (normal exit of the
\* body, an exception in the body, cancellation) has gone through the one
\* release path, a termination attempt followed by the closing of the process
\* resources, by the time control is back with the caller.
C2_EveryExitReleases ==
    ScopeLeft =>
        /\ exitKind \in {"normal", "exception", "cancelled"}
        /\ termAttempts = 1
        /\ acloseDone

\* C4: in a streaming run that returned, each sink has received exactly the
\* chunks the child wrote on its own channel, each once and in the order
\* written (nothing for a discarded channel), and at no time does a sink hold
\* a chunk of the other channel or anything but a prefix of what was written.
C4_ChunksDeliveredInOrder ==
    /\ \A c \in Channels : IsPrefix(delivered[c], emitted[c])
    /\ (pc = "returned" /\ Truthy(stream_output)) =>
          \A c \in Channels :
             delivered[c] = IF SinkOf(stream_output, c) = "None"
                            THEN <<>> ELSE emitted[c]

C4_Witness ==
    /\ pc = "returned"
    /\ SinkOf(stream_output, "out") = "TextSendStream"
    /\ SinkOf(stream_output, "err") = "TextIOBase"
    /\ \A c \in Channels :
          Len(emitted[c]) = MaxChunks /\ delivered[c] = emitted[c]

\* C5: a supplied task-status reporter is called at most once, only after the
\* spawn, and has been called before a stream_text task exists or a chunk
\* reaches a sink; a call that returns made exactly one report, and with the
\* default handler the reported value is the pid of the returned handle.
C5_ReporterOnceBeforeOutput ==
    /\ Len(reported) <= 1
    /\ (~task_status => reported = <<>>)
    /\ (reported # <<>> => spawns = 1 /\ reported[1] = StatusValue(task_status_handler, pid))
    /\ (task_status /\ (\E c \in Channels : relay[c] # "idle" \/ delivered[c] # <<>>)
           => Len(reported) = 1)
    /\ (task_status /\ pc = "returned" => Len(reported) = 1)
    /\ (task_status /\ ~task_status_handler /\ pc = "returned"
           => reported = <<result>>)

C5_Witness ==
    /\ pc = "returned"
    /\ task_status /\ ~task_status_handler
    /\ reported = <<result>> /\ result \in Pids
    /\ delivered["out"] # <<>>

\* C3: a command that is not an ordered token sequence (a single string in
\* particular) makes the call fail with the invalid-argument error (TypeError)
\* before any child exists: no spawn, no termination attempt or signal, and
\* no call of the task-status reporter, in any state of such a run.
C3_InvalidCommandNoSpawn ==
    command \notin TokenSequences =>
        /\ spawns = 0 /\ child = "none" /\ pid = 0
        /\ termAttempts = 0 /\ termSignals = 0
        /\ reported = <<>>
        /\ pc \in {"start", "raised"}
        /\ (pc = "raised" => exc = "TypeError")

C3_Witness ==
    /\ command = "str"
    /\ pc = "raised" /\ exc = "TypeError"
    /\ spawns = 0

\* C6: off win32, when an interrupt finds stop_process installed, its notice
\* is printed and the pid is alive, it sends SIGTERM to that pid and leaves
\* kill_process installed (TERMINATING) for the same pid; when an interrupt
\* finds kill_process installed and its notice is printed, it sends SIGKILL
\* to that pid; the notices are "Stopping <name>" and "Killing <name>".
C6_TwoTierEscalation ==
    [][(platform # "win32" /\ interrupts' = interrupts + 1
           /\ printLog' # printLog /\ sigint.pid \notin gone)
       => /\ sigint.kind = "stop" =>
               /\ printLog' = Append(printLog, <<"Stopping", sigint.name>>)
               /\ killLog' = Append(killLog, <<sigint.pid, "SIGTERM">>)
               /\ sigint' = [sigint EXCEPT !.kind = "kill"]
          /\ sigint.kind = "kill" =>
               /\ printLog' = Append(printLog, <<"Killing", sigint.name>>)
               /\ killLog' = Append(killLog, <<sigint.pid, "SIGKILL">>)
               /\ sigint' = sigint]_vars

C6_Witness ==
    /\ platform = "linux"
    /\ installs = 1 /\ interrupts = 2
    /\ sigint.kind = "kill"
    /\ killLog = <<<<sigint.pid, "SIGTERM">>, <<sigint.pid, "SIGKILL">>>>
    /\ printLog = <<<<"Stopping", sigint.name>>, <<"Killing", sigint.name>>>>

\* C7: run_process has returned a handle only if process.wait() completed
\* with the child exited and the release path (one termination attempt, then
\* the shielded process.aclose()) ran; the handle is that of the child, which
\* is not running.
C7_ReturnOnlyAfterExit ==
    pc = "returned" =>
        /\ child = "exited"
        /\ result = pid /\ pid \in Pids
        /\ exitKind = "normal" /\ exc = "none"
        /\ termAttempts = 1
        /\ acloseDone

C7_Witness ==
    /\ pc = "returned"
    /\ ~Truthy(stream_output)
    /\ child = "exited" /\ acloseDone /\ result = pid

\* C8: consume_process_output has completed normally only if both stream_text
\* tasks ran to the end of their source: past the task group of a streaming
\* run both relays are done, both pipes closed and drained.
C8_FanoutWaitsForBoth ==
    (Truthy(stream_output) /\ (pc = "wait" \/ exitKind = "normal")) =>
        \A c \in Channels :
            relay[c] = "done" /\ pipe[c] = <<>> /\ ~chanOpen[c]

C8_Witness ==
    /\ pc = "wait" /\ Truthy(stream_output)
    /\ child = "running"
    /\ \A c \in Channels : relay[c] = "done" /\ delivered[c] # <<>>

\* what a failed stream_text task group can raise
RelayFailures == {"TypeError", "SinkError", "ExceptionGroup"}

\* C9: once a stream_text task has failed, consume_process_output is left
\* only by raising that failure, run_process never returns, and unless the
\* call is cancelled meanwhile its caller gets that failure; when the failure
\* has left the task group no stream_text task is running any more and no
\* sink receives a further chunk; what a sink has received it keeps.
C9_RelayFailurePropagates ==
    /\ []((\E c \in Channels : relay[c] = "failed") =>
            /\ pc # "returned" /\ pc # "wait"
            /\ (pc # "fanout" => exitKind = "exception")
            /\ (pc = "aexit" => exc \in RelayFailures \cup {"Cancelled"})
            /\ (pc = "raised" /\ ~cancelled => exc \in RelayFailures))
    /\ [](exitKind = "exception" =>
            /\ \E c \in Channels : relay[c] = "failed"
            /\ \A c \in Channels : Terminal(relay[c]))
    /\ [][/\ (exitKind = "exception" => delivered' = delivered)
          /\ \A c \in Channels : IsPrefix(delivered[c], delivered'[c])]_vars

C9_Witness ==
    /\ pc = "raised" /\ exc = "SinkError" /\ ~cancelled
    /\ relay["out"] = "failed"
    /\ relay["err"] = "cancelled"
    /\ Len(delivered["out"]) = 1 /\ Len(delivered["err"]) = 1

\* stream_text of channel c writes to a sink that is neither a stream
\* abstraction, nor a (wrapped) file object, nor the discard sink
Unsupported(c) ==
    WrapFile(SinkOf(stream_output, SinkFor(c)))
        \notin {"TextSendStream", "AsyncFile", "None"}
\* chunks stream_text of channel c has taken from its source
Received(c) == Len(emitted[c]) - Len(pipe[c])

\* C10 as stated: with a sink of no recognised kind stream_text never ends
\* normally, whatever the source yields, also when it yields nothing.
C10_AlwaysFailsOnUnsupportedSink ==
    \A c \in Channels :
        (Unsupported(c) /\ relay[c] \in {"done", "failed"}) =>
            (relay[c] = "failed" /\ relayExc[c] = "TypeError")

\* C10 amended: with a sink of no recognised kind stream_text fails with the
\* unsupported-sink error (TypeError) on the first chunk it receives, and
\* nothing reaches the sink; a source that is exhausted without yielding a
\* chunk lets it complete normally, without the error.
C10_FailsOnFirstChunk ==
    \A c \in Channels :
        (Unsupported(c) /\ Piped(stream_output)) =>
            /\ delivered[SinkFor(c)] = <<>>
            /\ relay[c] # "send"
            /\ (relay[c] = "recv" => Received(c) = 0)
            /\ (relay[c] = "done" => emitted[c] = <<>>)
            /\ (relay[c] = "cancelled" => Received(c) = 0)
            /\ (Received(c) > 0 =>
                   /\ relay[c] = "failed" /\ relayExc[c] = "TypeError"
                   /\ Received(c) = 1)

C10_Witness ==
    /\ Unsupported("out") /\ Unsupported("err")
    /\ relay["err"] = "done" /\ emitted["err"] = <<>>
    /\ relay["out"] = "failed" /\ relayExc["out"] = "TypeError"

\* C11: when process.terminate() of the release path raises the
\* no-such-process error (the child has exited), the error is swallowed: the
\* exception in flight is what it was, the shielded process.aclose() is the
\* next step, and the scope is left with that outcome after the closing.
C11_LookupErrorSuppressed ==
    /\ [][(pc = "terminate" /\ termRaised' = "ProcessLookupError")
            => (pc' = "aclose" /\ exc' = exc)]_vars
    /\ []((termRaised = "ProcessLookupError" /\ ScopeLeft) =>
            /\ acloseDone
            /\ exc # "ProcessLookupError"
            /\ (exitKind = "normal" /\ ~cancelled =>
                    pc = "returned" /\ result = pid))

C11_Witness ==
    /\ termRaised = "ProcessLookupError"
    /\ pc = "raised" /\ exc = "SinkError"
    /\ acloseDone

\* C12: the shielded process.aclose() has run by the time the scope is left
\* whatever process.terminate() raised, not only after ProcessLookupError.
C12_CloseAfterAnyTerminateError ==
    (ScopeLeft /\ termRaised # "none") => acloseDone

\* C13: a failure of process.aclose() in the release path changes nothing
\* for the caller: the scope is left with the exception that was in flight
\* when the closing began, or normally if there was none.
C13_CloseFailureContained ==
    [][(pc = "aclose" /\ pc' # "aclose")
         => (exc' = exc /\ (exc = "none" => pc' = "returned"))]_vars

\* C14: on win32 the console control handler registered for the child is
\* no longer registered once the scope has been left, however it was left.
C14_CtrlHandlerRemoved ==
    (platform = "win32" /\ ScopeLeft) => pid \notin ctrlHandlers

\* C15: the channels are piped and the task group runs, to its end, before
\* process.wait() exactly when stream_output is truthy.  With a falsy
\* stream_output nothing the child writes enters a pipe, no stream_text task
\* is started, no sink receives a chunk, and the step after the (optional)
\* reporter call is the wait; with a truthy one everything written enters
\* the pipe, the step after is the task group, and the wait begins only
\* with both stream_text tasks done.
C15_StreamingIffTruthy ==
    /\ [][(pc = "stream" /\ pc' # "stream") =>
            /\ pc' = (IF Truthy(stream_output) THEN "fanout" ELSE "wait")
            /\ reported' = reported]_vars
    /\ [](~Truthy(stream_output) =>
            \A c \in Channels :
                relay[c] = "idle" /\ pipe[c] = <<>> /\ delivered[c] = <<>>)
    /\ [](Truthy(stream_output) =>
            /\ \A c \in Channels :
                  relay[c] = "idle" => pipe[c] = emitted[c]
            /\ (pc = "wait" => \A c \in Channels : relay[c] = "done"))

C15_Witness ==
    /\ ~Truthy(stream_output)
    /\ pc = "returned"
    /\ \A c \in Channels : Len(emitted[c]) = MaxChunks
    /\ reported = <<result>>

\* C19: in a call that is not cancelled and in which nothing has raised, no
\* termination signal goes to a running child: process.terminate() is called
\* only once process.wait() has completed, on a child that has exited.
C19_NoEarlyTermination ==
    (~cancelled /\ exc = "none") =>
        /\ termSignals = 0
        /\ (pc = "terminate" \/ termAttempts > 0 =>
                child = "exited" /\ exitKind = "normal")

C19_Witness ==
    /\ pc = "returned" /\ ~cancelled
    /\ Truthy(stream_output)
    /\ termAttempts = 1 /\ termSignals = 0
    /\ delivered["out"] # <<>>

\* the last signal a handler sent
LastKill(log) == log[Len(log)]

\* C16: the SIGINT disposition is one slot: whenever a handler sends a
\* signal, it sends one signal, to the pid of the most recent
\* kill_on_interrupt call, never to the pid of an earlier call.
C16_OnlyLatestInstallation ==
    [][killLog' # killLog =>
          /\ installLog # <<>>
          /\ Len(killLog') = Len(killLog) + 1
          /\ SubSeq(killLog', 1, Len(killLog)) = killLog
          /\ LastKill(killLog')[1] = installLog[Len(installLog)][1]]_vars

C16_Witness ==
    /\ platform = "linux"
    /\ Len(installLog) = 2
    /\ installLog[1][1] # installLog[2][1]
    /\ killLog = <<<<installLog[1][1], "SIGTERM">>,
                   <<installLog[2][1], "SIGTERM">>,
                   <<installLog[2][1], "SIGKILL">>>>

\* C17: once kill_process is installed (TERMINATING), an interrupt leaves it
\* installed for the same pid and name, sends no SIGTERM, and sends SIGKILL
\* to that pid whenever its notice is printed and the pid is alive.
C17_TerminatingIsAbsorbing ==
    [][(sigint.kind = "kill" /\ interrupts' = interrupts + 1) =>
          /\ sigint' = sigint
          /\ \/ killLog' = killLog
             \/ killLog' = Append(killLog, <<sigint.pid, "SIGKILL">>)
          /\ (printLog' # printLog /\ sigint.pid \notin gone =>
                 killLog' = Append(killLog, <<sigint.pid, "SIGKILL">>))]_vars

C17_Witness ==
    /\ installs = 1 /\ interrupts = 3
    /\ sigint.kind = "kill"
    /\ killLog = <<<<sigint.pid, "SIGTERM">>, <<sigint.pid, "SIGKILL">>,
                   <<sigint.pid, "SIGKILL">>>>

\* C18: once the process the disposition was installed for has ended, an
\* interrupt makes the handlers send no signal to the recorded pid.
C18_NoSignalAfterRunEnded ==
    [][runEnded => killLog' = killLog]_vars

\* C20: SIGKILL goes to a pid only after stop_process of the same
\* installation delivered its SIGTERM to that pid; an interrupt on which
\* stop_process sends nothing (print_fn or os.kill raised) leaves
\* stop_process installed, so that the next interrupt takes the graceful
\* path again.
C20_KillOnlyAfterGraceful ==
    /\ [](\A i \in stopped :
             /\ i \in 1..Len(installLog)
             /\ \E k \in 1..Len(killLog) :
                   killLog[k] = <<installLog[i][1], StopSignal(platform)>>)
    /\ [](sigint.kind = "kill" => sigint.inst \in stopped)
    /\ [][(killLog' # killLog /\ LastKill(killLog')[2] = "SIGKILL") =>
             /\ sigint.inst \in stopped
             /\ LastKill(killLog')[1] = installLog[sigint.inst][1]]_vars
    /\ [][(interrupts' = interrupts + 1 /\ sigint.kind = "stop"
              /\ killLog' = killLog) => sigint' = sigint]_vars

C20_Witness ==
    /\ platform = "linux"
    /\ installs = 1
    /\ printLog = <<<<"Stopping", sigint.name>>, <<"Stopping", sigint.name>>,
                    <<"Killing", sigint.name>>>>
    /\ killLog = <<<<sigint.pid, "SIGTERM">>, <<sigint.pid, "SIGKILL">>>>

====
